---- MODULE Spec2Model ----
(***************************************************************************)
(* cap-primitives: the Linux `open_impl` dispatcher (openat2 with          *)
(* RESOLVE_BENEATH, falling back to `manually::open`) and `reopen_impl`.   *)
(*                                                                         *)
(* The file system is a small host tree                                    *)
(*     /            host root                                              *)
(*     /etc/passwd  a file outside every capability                        *)
(*     /R           directory, a capability root                           *)
(*     /R/a         directory, a second capability root                    *)
(*     /R/a/f       a file that may or may not exist                       *)
(*     /R/a/link    a symbolic link whose target other processes change    *)
(* A node is named by the sequence of names leading to it from the host    *)
(* root.                                                                   *)
(***************************************************************************)
EXTENDS Integers, Sequences, FiniteSets, TLC

\* ------------------------------------------------------------------ bounds
NumThreads == 2
MaxPathLen == 2
\* Ceiling on symbolic-link expansions in one resolution (40 on Linux,
\* scaled down).
MaxExpansions == 2

\* --------------------------------------------------------------- constants
\* `for _ in 0..4`
MaxAttempts == 4
\* `options.ext.mode & 0o7777`
ModeMask == 4095

Threads == 1 .. NumThreads
MainThread == 1

\* ------------------------------------------------------------- file system
HostRoot == << >>
RDir == <<"R">>
ADir == <<"R", "a">>
EtcDir == <<"etc">>
FFile == <<"R", "a", "f">>
LinkNode == <<"R", "a", "link">>
PasswdFile == <<"etc", "passwd">>
NoNode == <<"-">>

Dirs == {HostRoot, RDir, ADir, EtcDir}

\* Targets the link /R/a/link can be given: inside the capability, outside
\* it, and itself (a loop).
LinkTargets == { <<"f">>, <<"..", "..", "etc", "passwd">>, <<"link">> }

\* Names a caller's path is built from; NulName stands for a name holding an
\* interior NUL byte.
NulName == "a\\0"
Components == {"a", "f", "link", ".."}

SeqsUpTo(S, n) == UNION { [1 .. k -> S] : k \in 1 .. n }

RelPaths == { [abs |-> FALSE, comps |-> s] : s \in SeqsUpTo(Components, MaxPathLen) }
AbsPaths == { [abs |-> TRUE, comps |-> s] : s \in {PasswdFile, FFile} }
NulPaths == { [abs |-> FALSE, comps |-> <<NulName>>] }
Paths == RelPaths \cup AbsPaths \cup NulPaths

Starts == {RDir, ADir}

\* Mode values carried by OpenOptions: one within 0o7777 and one with a bit
\* above it.
Mode644 == 6 * 64 + 4 * 8 + 4
ModeHigh == 4096 + Mode644

\* OpenOptions: the intent flags, the custom open flags and the creation mode.
Opt(r, w, a, t, c, cn, cf, m) ==
    [read |-> r, write |-> w, append |-> a, truncate |-> t, create |-> c,
     create_new |-> cn, custom_flags |-> cf, mode |-> m]

\* read-only; write+create; write+create_new; no access mode at all; write
\* with all the bits of O_TMPFILE; read with only the O_DIRECTORY bit of it.
OptionsSet ==
    { Opt(TRUE, FALSE, FALSE, FALSE, FALSE, FALSE, {}, Mode644),
      Opt(FALSE, TRUE, FALSE, FALSE, TRUE, FALSE, {}, ModeHigh),
      Opt(FALSE, TRUE, FALSE, FALSE, FALSE, TRUE, {}, Mode644),
      Opt(FALSE, FALSE, FALSE, FALSE, FALSE, FALSE, {}, Mode644),
      Opt(FALSE, TRUE, FALSE, FALSE, FALSE, FALSE, {"__O_TMPFILE", "DIRECTORY"}, ModeHigh),
      Opt(TRUE, FALSE, FALSE, FALSE, FALSE, FALSE, {"DIRECTORY"}, ModeHigh) }

VARIABLES
    INVALID,      \* static INVALID: AtomicBool of open_beneath
    linkTarget,   \* current target of /R/a/link
    fExists,      \* whether /R/a/f currently exists
    pc,           \* per thread: position in open_impl / reopen_impl
    args,         \* per thread: arguments of the call in progress
    seen,         \* per thread: value INVALID.load returned in this call
    calls,        \* per thread: openat2 calls issued in this call, with outcomes
    opens,        \* per thread: manually::open / open_unchecked calls of this call
    ret,          \* per thread: what open_beneath returned
    result,       \* per thread: what the top-level call returned
    began,        \* per thread: value of INVALID when the call was entered
    view,         \* per thread: the thread has read or written INVALID as true
    stale,        \* per thread: this call's load returned false with INVALID true
    racy_asserts  \* the build: cfg(racy_asserts)

vars == <<INVALID, linkTarget, fExists, pc, args, seen, calls, opens, ret, result,
          began, view, stale, racy_asserts>>

\* ----------------------------------------------------------------- results
Ok(n, s) == [ok |-> TRUE, node |-> n, err |-> "none", src |-> s, creates |-> FALSE]
Created(n, s) == [ok |-> TRUE, node |-> n, err |-> "none", src |-> s, creates |-> TRUE]
Err(e) == [ok |-> FALSE, node |-> NoNode, err |-> e, src |-> "none", creates |-> FALSE]
NoResult == Err("pending")

\* errors::escape_attempt()
escape_attempt == Err("EscapeAttempt")

IsDir(n) == n \in Dirs
IsFile(n) == n = PasswdFile \/ (n = FFile /\ fExists)
IsLink(n) == n = LinkNode
Parent(n) == IF n = HostRoot THEN HostRoot ELSE SubSeq(n, 1, Len(n) - 1)
InSubtree(n, root) == Len(n) >= Len(root) /\ SubSeq(n, 1, Len(root)) = root

\* ------------------------------------------------------------ open flags
\* OFlags::TMPFILE is made of two bits.
TMPFILE == {"__O_TMPFILE", "DIRECTORY"}

AccessFlags(o) ==
    IF o.append THEN (IF o.read THEN {"RDWR", "APPEND"} ELSE {"WRONLY", "APPEND"})
    ELSE IF o.read /\ o.write THEN {"RDWR"}
    ELSE IF o.write THEN {"WRONLY"}
    ELSE {"RDONLY"}

CreationFlags(o) ==
    IF o.create_new THEN {"CREATE", "EXCL"}
    ELSE (IF o.create THEN {"CREATE"} ELSE {}) \cup (IF o.truncate THEN {"TRUNC"} ELSE {})

\* compute_oflags(options): the open flags, or EINVAL for an intent that
\* names no access mode, creates or truncates without write access, or
\* truncates in append mode.
compute_oflags(o) ==
    IF ~o.read /\ ~o.write /\ ~o.append THEN [ok |-> FALSE, flags |-> {}]
    ELSE IF ~o.write /\ ~o.append /\ (o.truncate \/ o.create \/ o.create_new)
        THEN [ok |-> FALSE, flags |-> {}]
    ELSE IF o.append /\ o.truncate /\ ~o.create_new THEN [ok |-> FALSE, flags |-> {}]
    ELSE [ok |-> TRUE,
          flags |-> {"CLOEXEC"} \cup AccessFlags(o) \cup CreationFlags(o) \cup o.custom_flags]

\* c_str(path): fails when a name holds an interior NUL byte.
c_str(path) ==
    IF \E i \in 1 .. Len(path.comps) : path.comps[i] = NulName
    THEN [ok |-> FALSE, path |-> path]
    ELSE [ok |-> TRUE, path |-> path]

\* Variant: any bit of TMPFILE is enough.
ModeForAnyTmpfileBit(oflags, options) ==
    IF "CREATE" \in oflags \/ TMPFILE \cap oflags # {}
    THEN options.mode % (ModeMask + 1)
    ELSE 0

\* The mode handed to openat2.
ModeFor(oflags, options) ==
    IF "CREATE" \in oflags \/ TMPFILE \subseteq oflags
    THEN options.mode % (ModeMask + 1)
    ELSE 0

\* Variant: the resolve flags without BENEATH.
ResolveFlagsNoBeneath == {"NO_MAGICLINKS"}

\* ResolveFlags::BENEATH | ResolveFlags::NO_MAGICLINKS
ResolveFlags == {"BENEATH", "NO_MAGICLINKS"}

\* ------------------------------------------------- the kernel's resolution
Writes(oflags) == oflags \cap {"WRONLY", "RDWR", "CREATE", "TRUNC"} # {}

\* The unnamed file an O_TMPFILE open by `s` creates in directory n; each
\* such open creates a file of its own.
TmpNode(n, s) == Append(Append(n, "#tmp"), s)

\* Opening a node that exists.  With all the bits of O_TMPFILE the node must
\* be a writable directory (only /R/a is) and the open needs write access.
OpenExisting(n, oflags, s) ==
    IF "EXCL" \in oflags THEN Err("EEXIST")
    ELSE IF TMPFILE \subseteq oflags THEN
        IF ~IsDir(n) THEN Err("ENOTDIR")
        ELSE IF oflags \cap {"WRONLY", "RDWR"} = {} THEN Err("EINVAL")
        ELSE IF n # ADir THEN Err("EACCES")
        ELSE Ok(TmpNode(n, s), s)
    ELSE IF IsDir(n) /\ Writes(oflags) THEN Err("EISDIR")
    ELSE IF ~IsDir(n) /\ "DIRECTORY" \in oflags THEN Err("ENOTDIR")
    ELSE Ok(n, s)

\* Opening a name that does not exist in directory `dir`: only /R/a is
\* writable, and only the name f is free there.
OpenMissing(child, oflags, s) ==
    IF "CREATE" \notin oflags THEN Err("ENOENT")
    ELSE IF child = FFile THEN Created(child, s)
    ELSE Err("EACCES")

\* Path walk of the kernel from `cur`, `root` being the directory the call
\* was made relative to.  With RESOLVE_BENEATH a `..` at the root fails with
\* EXDEV; without it the walk ascends (the host root is its own parent).
RECURSIVE KWalk(_, _, _, _, _, _)
KWalk(cur, comps, nexp, root, resolve, oflags) ==
    IF comps = << >> THEN OpenExisting(cur, oflags, "openat2")
    ELSE IF ~IsDir(cur) THEN Err("ENOTDIR")
    ELSE IF Head(comps) = ".." THEN
        IF "BENEATH" \in resolve /\ cur = root THEN Err("EXDEV")
        ELSE KWalk(Parent(cur), Tail(comps), nexp, root, resolve, oflags)
    ELSE LET child == Append(cur, Head(comps)) IN
        IF IsLink(child) THEN
            IF Tail(comps) = << >> /\ "EXCL" \in oflags THEN Err("EEXIST")
            ELSE IF nexp >= MaxExpansions THEN Err("ELOOP")
            ELSE KWalk(cur, linkTarget \o Tail(comps), nexp + 1, root, resolve, oflags)
        ELSE IF IsDir(child) \/ IsFile(child) THEN
            KWalk(child, Tail(comps), nexp, root, resolve, oflags)
        ELSE IF Tail(comps) = << >> THEN OpenMissing(child, oflags, "openat2")
        ELSE Err("ENOENT")

\* What openat2(start, path, oflags, mode, resolve) resolves to when the
\* kernel completes the walk.
openat2(start, path, oflags, resolve) ==
    IF path.abs THEN
        IF "BENEATH" \in resolve THEN Err("EXDEV")
        ELSE KWalk(HostRoot, path.comps, 0, HostRoot, resolve, oflags)
    ELSE KWalk(start, path.comps, 0, start, resolve, oflags)

\* Failures of an openat2 call that do not come from the walk: a rename
\* elsewhere on the host, a seccomp policy, a kernel without the call, a
\* full descriptor table.
EnvErrnos == {"EAGAIN", "EPERM", "ENOSYS", "EMFILE"}

\* --------------------------------------------------- the manual walker
\* manually::open: component-by-component resolution from `start`.  A `..`
\* at the starting handle and an absolute path are escape attempts; more
\* than MaxExpansions symbolic links are a loop; the last component is
\* opened with the caller's intent.
RECURSIVE MWalk(_, _, _, _, _)
MWalk(cur, comps, nexp, root, options) ==
    IF comps = << >> THEN
        IF compute_oflags(options).ok
        THEN OpenExisting(cur, compute_oflags(options).flags, "manually")
        ELSE Err("EINVAL")
    ELSE IF Head(comps) = NulName THEN Err("InvalidInput")
    ELSE IF ~IsDir(cur) THEN Err("ENOTDIR")
    ELSE IF Head(comps) = ".." THEN
        IF cur = root THEN escape_attempt
        ELSE MWalk(Parent(cur), Tail(comps), nexp, root, options)
    ELSE LET child == Append(cur, Head(comps)) IN
        IF IsLink(child) THEN
            IF Tail(comps) = << >> /\ options.create_new THEN Err("EEXIST")
            ELSE IF nexp >= MaxExpansions THEN Err("SymlinkLoop")
            ELSE MWalk(cur, linkTarget \o Tail(comps), nexp + 1, root, options)
        ELSE IF IsDir(child) \/ IsFile(child) THEN
            MWalk(child, Tail(comps), nexp, root, options)
        ELSE IF Tail(comps) = << >> THEN
            IF compute_oflags(options).ok
            THEN OpenMissing(child, compute_oflags(options).flags, "manually")
            ELSE Err("EINVAL")
        ELSE Err("ENOENT")

manually_open(start, path, options) ==
    IF path.abs THEN escape_attempt
    ELSE MWalk(start, path.comps, 0, start, options)

\* open_unchecked: the platform's plain open relative to `start`, with no
\* beneath-root restriction.
open_unchecked(start, path, options) ==
    IF ~compute_oflags(options).ok THEN Err("EINVAL")
    ELSE LET r == openat2(start, path, compute_oflags(options).flags, {}) IN
        IF r.ok THEN [r EXCEPT !.src = "open_unchecked"] ELSE r

\* ---------------------------------------------------------------- state
NoArgs == [start |-> NoNode, path |-> [abs |-> FALSE, comps |-> << >>],
           options |-> Opt(FALSE, FALSE, FALSE, FALSE, FALSE, FALSE, {}, 0),
           file |-> NoNode]

Init ==
    /\ INVALID = FALSE
    /\ linkTarget \in LinkTargets
    /\ fExists \in BOOLEAN
    /\ pc = [t \in Threads |-> "idle"]
    /\ args = [t \in Threads |-> NoArgs]
    /\ seen = [t \in Threads |-> FALSE]
    /\ calls = [t \in Threads |-> << >>]
    /\ opens = [t \in Threads |-> << >>]
    /\ ret = [t \in Threads |-> NoResult]
    /\ result = [t \in Threads |-> NoResult]
    /\ began = [t \in Threads |-> FALSE]
    /\ view = [t \in Threads |-> FALSE]
    /\ stale = [t \in Threads |-> FALSE]
    /\ racy_asserts \in BOOLEAN

fsVars == <<linkTarget, fExists>>

\* ------------------------------------------------------------- open_impl
\* A caller enters open_impl(start, path, options), which calls open_beneath.
Enter(t, SS, PP, OO) ==
    /\ pc[t] = "idle"
    /\ \E s \in SS, p \in PP, o \in OO :
          args' = [args EXCEPT ![t] = [start |-> s, path |-> p, options |-> o,
                                       file |-> NoNode]]
    /\ pc' = [pc EXCEPT ![t] = "load"]
    /\ began' = [began EXCEPT ![t] = INVALID]
    /\ UNCHANGED <<INVALID, fsVars, seen, calls, opens, ret, result, view, stale,
                   racy_asserts>>

open_impl_call(t) == Enter(t, Starts, Paths, OptionsSet)

\* Variant: the loaded flag is not consulted.
AfterLoadIgnoringFlag(flag, path, options) ==
    IF ~compute_oflags(options).ok THEN "oflags_err"
    ELSE IF ~c_str(path).ok THEN "c_str_err"
    ELSE "loop"

\* What open_beneath does with the value it loaded from INVALID: skip to
\* the final Err(ENOSYS), fail in compute_oflags or c_str, or enter the loop.
AfterLoad(flag, path, options) ==
    IF flag THEN "unavailable"
    ELSE IF ~compute_oflags(options).ok THEN "oflags_err"
    ELSE IF ~c_str(path).ok THEN "c_str_err"
    ELSE "loop"

\* `Err(Errno::NOSYS.io_error())`, the last line of open_beneath.
Unavailable == Err("ENOSYS")

\* Variant: a load may return any value, whatever the thread has seen.
LoadableAny(t) == {FALSE, TRUE}

\* `INVALID.load(Relaxed)` by thread t: the value of INVALID, or, when no
\* store of it has reached the thread yet, the value before that store.  A
\* thread that has read or written true reads true.
Loadable(t) == IF view[t] \/ ~INVALID THEN {INVALID} ELSE {FALSE, TRUE}

open_beneath_load(t) ==
    /\ pc[t] = "load"
    /\ \E v \in Loadable(t) :
        /\ seen' = [seen EXCEPT ![t] = v]
        /\ view' = [view EXCEPT ![t] = v]
        /\ stale' = [stale EXCEPT ![t] = INVALID /\ ~v]
        /\ LET a == AfterLoad(v, args[t].path, args[t].options) IN
            /\ pc' = [pc EXCEPT ![t] = IF a = "loop" THEN "loop" ELSE "check"]
            /\ ret' = [ret EXCEPT ![t] =
                         CASE a = "unavailable" -> Unavailable
                           [] a = "oflags_err" -> Err("EINVAL")
                           [] a = "c_str_err" -> Err("InvalidInput")
                           [] OTHER -> NoResult]
    /\ UNCHANGED <<INVALID, fsVars, args, calls, opens, result, began, racy_asserts>>

\* Variants of the match with one arm changed.
ClassifyWith(errno, from, to) ==
    CASE errno = from -> to
      [] errno = "EAGAIN" -> "continue"
      [] errno = "EXDEV" -> "escape"
      [] errno = "EPERM" -> "break"
      [] errno = "ENOSYS" -> "store_break"
      [] OTHER -> "return"

ClassifyXdevBreak(errno) == ClassifyWith(errno, "EXDEV", "break")
ClassifyPermStore(errno) == ClassifyWith(errno, "EPERM", "store_break")
ClassifyNosysBreak(errno) == ClassifyWith(errno, "ENOSYS", "break")
ClassifyPermContinue(errno) == ClassifyWith(errno, "EPERM", "continue")
ClassifyOtherBreak(errno) ==
    IF errno \in {"EAGAIN", "EXDEV", "EPERM", "ENOSYS"}
    THEN ClassifyWith(errno, "none", "return")
    ELSE "break"

\* The match on a failed openat2: what the loop does with each errno.
Classify(errno) ==
    CASE errno = "EAGAIN" -> "continue"
      [] errno = "EXDEV" -> "escape"
      [] errno = "EPERM" -> "break"
      [] errno = "ENOSYS" -> "store_break"
      [] OTHER -> "return"

\* The record of one openat2 call.
Openat2Call(a, outcome) ==
    [start |-> a.start,
     path |-> c_str(a.path).path,
     oflags |-> compute_oflags(a.options).flags,
     mode |-> ModeFor(compute_oflags(a.options).flags, a.options),
     resolve |-> ResolveFlags,
     outcome |-> IF outcome.ok THEN "OK" ELSE outcome.err]

\* Variant: the last EAGAIN is returned when the attempts run out.
LoopExitSurfacingAgain(kind, outcome) ==
    CASE kind = "escape" -> escape_attempt
      [] kind = "return" -> outcome
      [] kind = "continue" -> outcome
      [] OTHER -> Err("ENOSYS")

\* What open_beneath returns after a failed attempt that ends the loop.
LoopExit(kind, outcome) ==
    CASE kind = "escape" -> escape_attempt
      [] kind = "return" -> outcome
      [] OTHER -> Unavailable

\* Variant: the flag is flipped.
StoredFlipped(old) == ~old

\* `INVALID.store(true, Relaxed)`: the value of INVALID after the store.
Stored(old) == TRUE

\* Variant: check_open is compiled in whatever the build.
ChecksOpenAlways(racy) == TRUE

\* `#[cfg(racy_asserts)] check_open(start, path, options, &file);`
ChecksOpen(racy) == racy

\* One iteration of the retry loop: issue openat2 and act on its outcome.
open_beneath_openat2(t) ==
    /\ pc[t] = "loop"
    /\ Len(calls[t]) < MaxAttempts
    /\ LET a == args[t]
           oflags == compute_oflags(a.options).flags
       IN \E outcome \in {openat2(a.start, a.path, oflags, ResolveFlags)}
                            \cup {Err(e) : e \in EnvErrnos} :
          LET kind == IF outcome.ok THEN "ok" ELSE Classify(outcome.err)
              again == kind = "continue" /\ Len(calls[t]) + 1 < MaxAttempts
          IN
          /\ calls' = [calls EXCEPT ![t] = Append(@, Openat2Call(a, outcome))]
          /\ fExists' = (fExists \/ outcome.creates)
          /\ INVALID' = IF kind = "store_break" THEN Stored(INVALID) ELSE INVALID
          /\ view' = [view EXCEPT ![t] =
                        IF kind = "store_break" THEN Stored(INVALID) ELSE @]
          /\ pc' = [pc EXCEPT ![t] =
                      IF again THEN "loop"
                      ELSE IF kind = "ok" /\ ChecksOpen(racy_asserts) THEN "check_open"
                      ELSE "check"]
          /\ ret' = [ret EXCEPT ![t] =
                       IF again THEN NoResult
                       ELSE IF kind = "ok" THEN outcome
                       ELSE LoopExit(kind, outcome)]
    /\ UNCHANGED <<linkTarget, args, seen, opens, result, began, stale, racy_asserts>>

\* Variant: no fallback.
NeverFallback(r) == FALSE

\* Variant: fallback on every error.
FallbackOnAnyError(r) == ~r.ok

\* Variant: fallback on every error but the escape attempt.
FallbackOnIoError(r) == ~r.ok /\ r # escape_attempt

\* `if let Some(Errno::NOSYS) = Errno::from_io_error(err)`
NeedsFallback(r) == ~r.ok /\ r.err = "ENOSYS"

\* The record of one call to manually::open or open_unchecked; fn names the
\* call: "manually::open" for the fallback of open_impl, "check_open" for
\* the manually::open of check_open, "open_unchecked" for reopen_impl's.
OpenCall(fn, start, path, options, res) ==
    [fn |-> fn, start |-> start, path |-> path, options |-> options, res |-> res]

\* Variant: the caller's options are used as they are.
CheckOptionsUnchanged(o) == o

\* `options.clone().create(false).create_new(false).truncate(false)`
CheckOptions(o) == [o EXCEPT !.create = FALSE, !.create_new = FALSE, !.truncate = FALSE]

\* is_same_file(file, &check): the two handles are on the same file.
is_same_file(file, check) == file.node = check.node

\* check_open, after an openat2 success in a racy_asserts build: resolve the
\* same start and path with manually::open; panic unless it succeeds
\* (`expect`) on the same file (`assert!`).
check_open(t) ==
    /\ pc[t] = "check_open"
    /\ LET a == args[t]
           m == manually_open(a.start, a.path, CheckOptions(a.options))
       IN /\ opens' = [opens EXCEPT ![t] =
                         Append(@, OpenCall("check_open", a.start, a.path,
                                            CheckOptions(a.options), m))]
          /\ fExists' = (fExists \/ m.creates)
          /\ pc' = [pc EXCEPT ![t] =
                      IF m.ok /\ is_same_file(ret[t], m) THEN "check" ELSE "panicked"]
    /\ UNCHANGED <<INVALID, linkTarget, args, seen, calls, ret, result, began, view,
                   stale, racy_asserts>>

\* open_impl after open_beneath returned: fall back on ENOSYS, else return
\* the result as it is.
open_impl_return(t) ==
    /\ pc[t] = "check"
    /\ LET a == args[t] IN
       IF NeedsFallback(ret[t]) THEN
          LET m == manually_open(a.start, a.path, a.options) IN
          /\ result' = [result EXCEPT ![t] = m]
          /\ opens' = [opens EXCEPT ![t] =
                         Append(@, OpenCall("manually::open", a.start, a.path, a.options, m))]
          /\ fExists' = (fExists \/ m.creates)
       ELSE
          /\ result' = [result EXCEPT ![t] = ret[t]]
          /\ UNCHANGED <<opens, fExists>>
    /\ pc' = [pc EXCEPT ![t] = "done"]
    /\ UNCHANGED <<INVALID, linkTarget, args, seen, calls, ret, began, view, stale,
                   racy_asserts>>

\* The caller takes the result; the thread is free for its next call.
Return(t) ==
    /\ pc[t] = "done"
    /\ pc' = [pc EXCEPT ![t] = "idle"]
    /\ args' = [args EXCEPT ![t] = NoArgs]
    /\ seen' = [seen EXCEPT ![t] = FALSE]
    /\ calls' = [calls EXCEPT ![t] = << >>]
    /\ opens' = [opens EXCEPT ![t] = << >>]
    /\ ret' = [ret EXCEPT ![t] = NoResult]
    /\ result' = [result EXCEPT ![t] = NoResult]
    /\ began' = [began EXCEPT ![t] = FALSE]
    /\ stale' = [stale EXCEPT ![t] = FALSE]
    /\ UNCHANGED <<INVALID, fsVars, view, racy_asserts>>

\* ----------------------------------------------------------- reopen_impl
\* Open handles a caller may ask to reopen.
OpenFiles == {FFile, ADir, PasswdFile}

\* cwd()
Cwd == RDir

reopen_impl_call(t) ==
    /\ pc[t] = "idle"
    /\ \E f \in OpenFiles, o \in OptionsSet :
          args' = [args EXCEPT ![t] = [NoArgs EXCEPT !.file = f, !.options = o]]
    /\ pc' = [pc EXCEPT ![t] = "file_path"]
    /\ began' = [began EXCEPT ![t] = INVALID]
    /\ UNCHANGED <<INVALID, fsVars, seen, calls, opens, ret, result, view, stale,
                   racy_asserts>>

\* file_path(file): the absolute path of the handle, or None.
file_path(file) ==
    { [some |-> TRUE, path |-> [abs |-> TRUE, comps |-> file]],
      [some |-> FALSE, path |-> NoArgs.path] }

\* `io::Error::new(io::ErrorKind::Other, "Couldn't reopen file")`
CouldntReopen == Err("Couldn't reopen file")

\* Variant: the original handle is handed back.
ReopenNoneOriginal(file) == Ok(file, "original")

\* What reopen_impl returns for `file` when file_path gave None.
ReopenNone(file) == CouldntReopen

\* reopen_impl: `if let Some(path) = file_path(file)`.
reopen_impl_file_path(t) ==
    /\ pc[t] = "file_path"
    /\ \E fp \in file_path(args[t].file) :
          IF fp.some THEN
             /\ args' = [args EXCEPT ![t].path = fp.path, ![t].start = Cwd]
             /\ pc' = [pc EXCEPT ![t] = "open_unchecked"]
             /\ UNCHANGED result
          ELSE
             /\ result' = [result EXCEPT ![t] = ReopenNone(args[t].file)]
             /\ pc' = [pc EXCEPT ![t] = "done"]
             /\ UNCHANGED args
    /\ UNCHANGED <<INVALID, fsVars, seen, calls, opens, ret, began, view, stale,
                   racy_asserts>>

\* The opener reopen_impl hands the recovered path to.
ReopenOpener == "open_unchecked"

\* Variant: the original handle is handed back.
ReopenSomeOriginal(file, r) == IF r.ok THEN Ok(file, "original") ELSE r

\* What reopen_impl returns for `file` when the open returned r: `Ok(r?)`.
ReopenSome(file, r) == r

\* reopen_impl: `Ok(open_unchecked(&cwd(), &path, options)?)`.
reopen_impl_open(t) ==
    /\ pc[t] = "open_unchecked"
    /\ LET a == args[t]
           r == open_unchecked(a.start, a.path, a.options)
       IN /\ result' = [result EXCEPT ![t] = ReopenSome(a.file, r)]
          /\ opens' = [opens EXCEPT ![t] =
                          Append(@, OpenCall(ReopenOpener, a.start, a.path, a.options, r))]
          /\ fExists' = (fExists \/ r.creates)
    /\ pc' = [pc EXCEPT ![t] = "done"]
    /\ UNCHANGED <<INVALID, linkTarget, args, seen, calls, ret, began, view, stale,
                   racy_asserts>>

\* ---------------------------------------------------------- environment
\* Another process retargets the symbolic link.
SwapLink ==
    /\ \E l \in LinkTargets \ {linkTarget} : linkTarget' = l
    /\ UNCHANGED <<INVALID, fExists, pc, args, seen, calls, opens, ret, result, began,
                   view, stale, racy_asserts>>

\* Another process removes /R/a/f.
UnlinkF ==
    /\ fExists
    /\ fExists' = FALSE
    /\ UNCHANGED <<INVALID, linkTarget, pc, args, seen, calls, opens, ret, result, began,
                   view, stale, racy_asserts>>

\* ---------------------------------------------------------- specification
Step(t) ==
    \/ open_impl_call(t)
    \/ open_beneath_load(t)
    \/ open_beneath_openat2(t)
    \/ check_open(t)
    \/ open_impl_return(t)
    \/ reopen_impl_call(t)
    \/ reopen_impl_file_path(t)
    \/ reopen_impl_open(t)
    \/ Return(t)

\* One caller thread; the file system changes under it.
Next ==
    \/ Step(MainThread)
    \/ SwapLink
    \/ UnlinkF

Spec == Init /\ [][Next]_vars

\* Several threads call open_impl at once on a quiet file system, in a build
\* without racy_asserts; they share INVALID only.
ConcPaths == {[abs |-> FALSE, comps |-> <<"a", "f">>]}
ConcOptions == {Opt(TRUE, FALSE, FALSE, FALSE, FALSE, FALSE, {}, Mode644)}

InitConc ==
    /\ Init
    /\ linkTarget = <<"f">>
    /\ fExists
    /\ ~racy_asserts

StepConc(t) ==
    \/ Enter(t, {RDir}, ConcPaths, ConcOptions)
    \/ open_beneath_load(t)
    \/ open_beneath_openat2(t)
    \/ open_impl_return(t)
    \/ Return(t)

NextConc == \E t \in Threads : StepConc(t)

SpecConc == InitConc /\ [][NextConc]_vars

\* ============================================================== properties
OpenDone(t) == pc[t] = "done" /\ args[t].file = NoNode
ReopenDone(t) == pc[t] = "done" /\ args[t].file # NoNode
IsOpen(t) == pc[t] \in {"load", "loop", "check_open", "check", "panicked"} \/ OpenDone(t)
Returned(t) == pc[t] \in {"check", "done"}

LastOutcome(t) == IF calls[t] = << >> THEN "none" ELSE calls[t][Len(calls[t])].outcome

\* A step in which thread t issued an openat2 call that ended with errno e.
Issued(t, e) ==
    /\ Len(calls'[t]) = Len(calls[t]) + 1
    /\ calls'[t][Len(calls'[t])].outcome = e

\* The call of thread t fell back: exactly one manually::open, made with the
\* caller's own start, path and options, whose result is the call's result.
FellBack(t) ==
    /\ Len(opens[t]) = 1
    /\ opens[t][1].fn = "manually::open"
    /\ opens[t][1].start = args[t].start
    /\ opens[t][1].path = args[t].path
    /\ opens[t][1].options = args[t].options
    /\ result[t] = opens[t][1].res

\* C1 (no escape): a handle open_impl returns lies in the subtree of the
\* start handle; it comes from an openat2 call made relative to start with
\* RESOLVE_BENEATH, or from the manual walker started at start; every openat2
\* call is made relative to start with RESOLVE_BENEATH; and an escape that
\* openat2 (EXDEV) or the walker detects ends the call in EscapeAttempt.
C1_NoEscape ==
    \A t \in Threads :
        /\ \A i \in 1 .. Len(calls[t]) :
              calls[t][i].start = args[t].start /\ "BENEATH" \in calls[t][i].resolve
        /\ OpenDone(t) =>
            /\ result[t].ok =>
                /\ InSubtree(result[t].node, args[t].start)
                /\ \/ /\ result[t].src = "openat2"
                      /\ LastOutcome(t) = "OK"
                      /\ \A i \in 1 .. Len(opens[t]) : opens[t][i].fn = "check_open"
                   \/ result[t].src = "manually" /\ FellBack(t)
            /\ LastOutcome(t) = "EXDEV" => result[t] = escape_attempt
            /\ (opens[t] # << >> /\ opens[t][1].res = escape_attempt)
                  => result[t] = escape_attempt

\* An escaping symbolic link was followed and the call ended in EscapeAttempt.
C1_Witness ==
    \E t \in Threads :
        /\ OpenDone(t)
        /\ args[t].path.comps = <<"a", "link">>
        /\ LastOutcome(t) = "EXDEV"
        /\ result[t] = escape_attempt

\* What holds of a call entered while INVALID was already set.
C2_StartedInvalid ==
    \A t \in Threads :
        (began[t] /\ IsOpen(t)) =>
            /\ calls[t] = << >>
            /\ pc[t] # "loop"
            /\ Returned(t) => ret[t] = Unavailable
            /\ pc[t] = "done" => FellBack(t)

C3_UnsupportedAbsorbed ==
    \A t \in Threads :
        OpenDone(t) =>
            /\ ret[t] = Unavailable => FellBack(t)
            /\ result[t].err # "ENOSYS"
            /\ result[t] # NoResult

C3_Witness ==
    \E t \in Threads :
        /\ OpenDone(t)
        /\ ret[t] = Unavailable
        /\ LastOutcome(t) = "EPERM"
        /\ result[t].ok

\* What holds of a call once one of its openat2 calls failed with EXDEV.
C4_XdevState ==
    \A t \in Threads :
        \A i \in 1 .. Len(calls[t]) :
            calls[t][i].outcome = "EXDEV" =>
                /\ i = Len(calls[t])
                /\ Returned(t)
                /\ ret[t] = escape_attempt
                /\ opens[t] = << >>
                /\ pc[t] = "done" => result[t] = escape_attempt

\* C4 (EXDEV): an openat2 call that fails with EXDEV is the last one of its
\* call, open_beneath returns EscapeAttempt, the manual walker is not called,
\* open_impl returns EscapeAttempt, and the step leaves INVALID as it was.
C4_XdevIsEscapeAttempt ==
    /\ []C4_XdevState
    /\ [][\A t \in Threads : Issued(t, "EXDEV") => INVALID' = INVALID]_vars

\* EXDEV on the second attempt, after one EAGAIN.
C4_Witness ==
    \E t \in Threads :
        /\ OpenDone(t)
        /\ Len(calls[t]) = 2
        /\ LastOutcome(t) = "EXDEV"
        /\ result[t] = escape_attempt

\* C5 as the specification states it: a reopen that recovered a path resolves
\* it with the sandboxed resolver used by open (open_impl, that is openat2
\* with RESOLVE_BENEATH or manually::open) against the current working
\* directory, so that a handle it returns lies beneath that directory.
SandboxedOpeners == {"open_impl", "open_beneath", "manually::open"}

C5_ReopenUsesSandboxedResolver ==
    \A t \in Threads :
        (ReopenDone(t) /\ args[t].path.abs) =>
            /\ opens[t] # << >> \/ calls[t] # << >>
            /\ \A i \in 1 .. Len(opens[t]) : opens[t][i].fn \in SandboxedOpeners
            /\ result[t].ok => InSubtree(result[t].node, Cwd)

\* C5 (amended): when file_path succeeds, reopen_impl hands the recovered
\* path to open_unchecked, exactly once, relative to the current working
\* directory and with the new OpenOptions; it issues no openat2 call and does
\* not call manually::open; it returns what open_unchecked returned, so a
\* handle it returns is the newly opened one, never the original.
C5_ReopenOpensUnchecked ==
    \A t \in Threads :
        (ReopenDone(t) /\ args[t].path.abs) =>
            /\ calls[t] = << >>
            /\ Len(opens[t]) = 1
            /\ opens[t][1].fn = "open_unchecked"
            /\ opens[t][1].start = Cwd
            /\ opens[t][1].path = [abs |-> TRUE, comps |-> args[t].file]
            /\ opens[t][1].options = args[t].options
            /\ result[t] = opens[t][1].res
            /\ result[t].ok => result[t].src = "open_unchecked"

\* A reopen of a handle on /etc/passwd, recovered and opened again.
C5_Witness ==
    \E t \in Threads :
        /\ ReopenDone(t)
        /\ args[t].path.abs
        /\ args[t].file = PasswdFile
        /\ result[t].ok
        /\ result[t].node = PasswdFile

\* C6: when file_path returns None, reopen_impl returns the "Couldn't reopen
\* file" error, opens nothing and returns no handle.
C6_ReopenFailsWithoutPath ==
    \A t \in Threads :
        (ReopenDone(t) /\ ~args[t].path.abs) =>
            /\ result[t] = CouldntReopen
            /\ ~result[t].ok
            /\ opens[t] = << >>
            /\ calls[t] = << >>

C6_Witness ==
    \E t \in Threads :
        ReopenDone(t) /\ ~args[t].path.abs /\ result[t] = CouldntReopen

\* The openat2 outcomes the retry loop treats specially.
Handled == {"OK", "EAGAIN", "EXDEV", "EPERM", "ENOSYS"}

C7_OtherState ==
    \A t \in Threads :
        \A i \in 1 .. Len(calls[t]) :
            calls[t][i].outcome \notin Handled =>
                /\ i = Len(calls[t])
                /\ Returned(t)
                /\ ret[t] = Err(calls[t][i].outcome)
                /\ opens[t] = << >>
                /\ pc[t] = "done" => result[t] = Err(calls[t][i].outcome)

\* C7: an openat2 call that fails with an errno other than EAGAIN, EXDEV,
\* EPERM and ENOSYS is the last one of its call; open_beneath and open_impl
\* return that errno unchanged, the manual walker is not called, and the
\* step leaves INVALID as it was.
C7_OtherErrorsSurfaced ==
    /\ []C7_OtherState
    /\ [][\A t \in Threads :
            (Len(calls'[t]) = Len(calls[t]) + 1
             /\ calls'[t][Len(calls'[t])].outcome \notin Handled)
                => INVALID' = INVALID]_vars

\* create_new on a file that exists: EEXIST reaches the caller.
C7_Witness ==
    \E t \in Threads :
        /\ OpenDone(t)
        /\ LastOutcome(t) = "EEXIST"
        /\ result[t] = Err("EEXIST")

\* What holds of a call once one of its openat2 calls failed with EPERM.
C8_PermState ==
    \A t \in Threads :
        \A i \in 1 .. Len(calls[t]) :
            calls[t][i].outcome = "EPERM" =>
                /\ i = Len(calls[t])
                /\ Returned(t)
                /\ ret[t] = Unavailable
                /\ pc[t] = "done" => FellBack(t)

\* C8: an openat2 call that fails with EPERM is the last one of its call;
\* open_beneath returns Err(ENOSYS), open_impl returns the manual walker's
\* result, and the step leaves INVALID as it was; and a call that loads an
\* unset flag, with flags and path that convert, enters the retry loop.
C8_PermFallsBackFlagKept ==
    /\ []C8_PermState
    /\ [][\A t \in Threads :
            /\ Issued(t, "EPERM") => INVALID' = INVALID
            /\ (pc[t] = "load" /\ pc'[t] # "load" /\ ~INVALID
                 /\ compute_oflags(args[t].options).ok /\ c_str(args[t].path).ok)
                    => pc'[t] = "loop"]_vars

C8_Witness ==
    \E t \in Threads :
        /\ OpenDone(t)
        /\ LastOutcome(t) = "EPERM"
        /\ FellBack(t)
        /\ ~INVALID

\* C9: an openat2 call that fails with ENOSYS sets INVALID in that step and
\* is the last one of its call; open_impl returns the manual walker's result.
C9_NosysSetsFlag ==
    \A t \in Threads :
        \A i \in 1 .. Len(calls[t]) :
            calls[t][i].outcome = "ENOSYS" =>
                /\ INVALID
                /\ i = Len(calls[t])
                /\ Returned(t)
                /\ ret[t] = Unavailable
                /\ pc[t] = "done" => FellBack(t)

C9_Witness ==
    \E t \in Threads :
        /\ OpenDone(t)
        /\ ~seen[t]
        /\ LastOutcome(t) = "ENOSYS"
        /\ INVALID
        /\ FellBack(t)

\* Every attempt of the retry loop was made and failed with EAGAIN.
AllAgain(t) ==
    /\ Len(calls[t]) = MaxAttempts
    /\ \A i \in 1 .. Len(calls[t]) : calls[t][i].outcome = "EAGAIN"

C10_ExhaustedState ==
    \A t \in Threads :
        AllAgain(t) =>
            /\ Returned(t)
            /\ ret[t] = Unavailable
            /\ pc[t] = "done" => (FellBack(t) /\ result[t].err # "EAGAIN")

\* C10: when all MaxAttempts openat2 calls of a call fail with EAGAIN,
\* open_beneath returns Err(ENOSYS), not EAGAIN; open_impl returns the manual
\* walker's result; and no EAGAIN step changes INVALID.
C10_ExhaustedRetriesFallBack ==
    /\ []C10_ExhaustedState
    /\ [][\A t \in Threads : Issued(t, "EAGAIN") => INVALID' = INVALID]_vars

C10_Witness ==
    \E t \in Threads :
        /\ OpenDone(t)
        /\ AllAgain(t)
        /\ FellBack(t)
        /\ result[t].ok
        /\ ~INVALID

\* The arguments of the i-th openat2 call of thread t.
CallArgs(t, i) ==
    <<calls[t][i].start, calls[t][i].path, calls[t][i].oflags, calls[t][i].mode,
      calls[t][i].resolve>>

\* C11 (bounded retry): one call issues at most 4 openat2 calls; every
\* attempt but the last failed with EAGAIN; all attempts of a call have the
\* same start, path, open flags, mode and resolve flags; and a call that made
\* its 4th attempt has left the loop, whatever the outcome.
C11_BoundedRetry ==
    \A t \in Threads :
        /\ Len(calls[t]) <= 4
        /\ \A i \in 1 .. Len(calls[t]) - 1 : calls[t][i].outcome = "EAGAIN"
        /\ \A i \in 1 .. Len(calls[t]) :
              /\ CallArgs(t, i) = CallArgs(t, 1)
              /\ calls[t][i].start = args[t].start
              /\ calls[t][i].path = args[t].path
        /\ Len(calls[t]) = 4 => pc[t] # "loop"
        /\ pc[t] = "loop" => ENABLED open_beneath_openat2(t)

\* Three EAGAIN results, then a success on the fourth attempt.
C11_Witness ==
    \E t \in Threads :
        /\ OpenDone(t)
        /\ Len(calls[t]) = 4
        /\ LastOutcome(t) = "OK"
        /\ result[t].ok

\* C12 (divergence check): in a racy_asserts build a call whose openat2
\* succeeded does not get past open_beneath before manually::open was called
\* once with the same start and path and the caller's options with create,
\* create_new and truncate false; the handle is returned only if that call
\* succeeded on the same file, and the call panics otherwise.
C12_DivergenceCheck ==
    \A t \in Threads :
        (racy_asserts /\ LastOutcome(t) = "OK") =>
            /\ pc[t] \in {"check_open", "check", "done", "panicked"}
            /\ pc[t] = "check_open" => opens[t] = << >>
            /\ pc[t] \in {"check", "done", "panicked"} =>
                /\ Len(opens[t]) = 1
                /\ opens[t][1].fn = "check_open"
                /\ opens[t][1].start = args[t].start
                /\ opens[t][1].path = args[t].path
                /\ opens[t][1].options =
                      [args[t].options EXCEPT !.create = FALSE, !.create_new = FALSE,
                                              !.truncate = FALSE]
                /\ pc[t] = "panicked" <=>
                      ~(opens[t][1].res.ok /\ opens[t][1].res.node = ret[t].node)
            /\ pc[t] = "done" => result[t] = ret[t]

\* openat2 created /R/a/f and check_open, opening without create, found the same file.
C12_Witness ==
    \E t \in Threads :
        /\ racy_asserts
        /\ OpenDone(t)
        /\ args[t].options.create
        /\ LastOutcome(t) = "OK"
        /\ Len(opens[t]) = 1
        /\ result[t].creates
        /\ opens[t][1].res.node = result[t].node

\* What holds, in a build without racy_asserts, of a call whose openat2
\* succeeded.
C13_SuccessState ==
    \A t \in Threads :
        (~racy_asserts /\ LastOutcome(t) = "OK") =>
            /\ Returned(t)
            /\ ret[t].ok /\ ret[t].src = "openat2"
            /\ opens[t] = << >>
            /\ pc[t] = "done" => result[t] = ret[t]

\* C13: in a build without racy_asserts, when an openat2 attempt succeeds
\* (on the first attempt or after EAGAIN results) open_impl returns that
\* handle, manually::open is not called in that call, and the step leaves
\* INVALID as it was.
C13_SuccessReturnsHandle ==
    /\ []C13_SuccessState
    /\ [][\A t \in Threads : Issued(t, "OK") => INVALID' = INVALID]_vars

C13_Witness ==
    \E t \in Threads :
        /\ ~racy_asserts
        /\ OpenDone(t)
        /\ Len(calls[t]) = 4
        /\ LastOutcome(t) = "OK"
        /\ result[t].ok
        /\ opens[t] = << >>

\* The low 12 bits of a mode.
Low12(m) == m - 4096 * (m \div 4096)

\* C15 (mode): the mode of every openat2 call is the caller's mode masked
\* with 0o7777 when the call's open flags contain CREATE or all the bits of
\* TMPFILE, and the empty mode otherwise.
C15_Mode ==
    \A t \in Threads :
        \A i \in 1 .. Len(calls[t]) :
            calls[t][i].mode =
                IF "CREATE" \in calls[t][i].oflags
                   \/ ("__O_TMPFILE" \in calls[t][i].oflags
                       /\ "DIRECTORY" \in calls[t][i].oflags)
                THEN Low12(args[t].options.mode)
                ELSE 0

\* A call with only the O_DIRECTORY bit of TMPFILE and a mode above 0o7777
\* passed the empty mode.
C15_Witness ==
    \E t \in Threads :
        /\ calls[t] # << >>
        /\ "DIRECTORY" \in calls[t][1].oflags
        /\ "__O_TMPFILE" \notin calls[t][1].oflags
        /\ args[t].options.mode > 4095
        /\ calls[t][1].mode = 0

\* C17: in a build without racy_asserts one open_impl call calls
\* manually::open at most once, and only when the call is over (no openat2
\* follows it); it is called exactly when the flag was read as set or the
\* last openat2 failed with ENOSYS or EPERM or all 4 attempts failed with
\* EAGAIN.
C17_FallbackExactly ==
    \A t \in Threads :
        (~racy_asserts /\ IsOpen(t)) =>
            /\ Len(opens[t]) <= 1
            /\ opens[t] # << >> => (pc[t] = "done" /\ opens[t][1].fn = "manually::open")
            /\ pc[t] = "done" =>
                  (opens[t] # << >> <=>
                      \/ seen[t]
                      \/ LastOutcome(t) \in {"ENOSYS", "EPERM"}
                      \/ (Len(calls[t]) = 4 /\ LastOutcome(t) = "EAGAIN"))

C17_Witness ==
    \E t \in Threads :
        /\ ~racy_asserts
        /\ OpenDone(t)
        /\ Len(calls[t]) = 4
        /\ LastOutcome(t) = "EAGAIN"
        /\ Len(opens[t]) = 1

\* What holds of a call whose flags or path do not convert.
C18_ConversionState ==
    \A t \in Threads :
        (IsOpen(t) /\ pc[t] # "load"
         /\ (~compute_oflags(args[t].options).ok \/ ~c_str(args[t].path).ok)) =>
            /\ calls[t] = << >>
            /\ ~seen[t] =>
                /\ ret[t] = IF ~compute_oflags(args[t].options).ok
                            THEN Err("EINVAL") ELSE Err("InvalidInput")
                /\ opens[t] = << >>
                /\ pc[t] = "done" => result[t] = ret[t]
            /\ seen[t] =>
                /\ ret[t] = Unavailable
                /\ pc[t] = "done" => FellBack(t)

\* C18: with the flag read as unset, a failure of compute_oflags or of c_str
\* ends open_beneath with that error before any openat2 call, the load step
\* leaves INVALID as it was, and open_impl returns the error without calling
\* manually::open; with the flag read as set, open_beneath returns
\* Err(ENOSYS) whatever the flags and the path, and open_impl returns
\* manually::open's result.
C18_ConversionFailures ==
    /\ []C18_ConversionState
    /\ [][\A t \in Threads :
            (pc[t] = "load" /\ pc'[t] # "load") => INVALID' = INVALID]_vars

\* A path with a NUL byte, the flag unset: the error of c_str is returned.
C18_Witness ==
    \E t \in Threads :
        /\ OpenDone(t)
        /\ ~seen[t]
        /\ ~c_str(args[t].path).ok
        /\ compute_oflags(args[t].options).ok
        /\ result[t] = Err("InvalidInput")
        /\ opens[t] = << >>

\* What open_beneath returned, as a function of the value the call loaded
\* from INVALID and of the outcomes of its own openat2 calls.
C14_OwnOutcome ==
    \A t \in Threads :
        Returned(t) =>
            /\ seen[t] => (calls[t] = << >> /\ ret[t] = Unavailable)
            /\ ~seen[t] =>
                /\ calls[t] # << >>
                /\ LastOutcome(t) = "OK" => (ret[t].ok /\ ret[t].src = "openat2")
                /\ LastOutcome(t) \in {"ENOSYS", "EPERM"} => ret[t] = Unavailable
                /\ LastOutcome(t) = "EAGAIN" => (Len(calls[t]) = 4 /\ ret[t] = Unavailable)
                /\ LastOutcome(t) = "EXDEV" => ret[t] = escape_attempt
                /\ LastOutcome(t) \notin {"OK", "ENOSYS", "EPERM", "EAGAIN", "EXDEV"} =>
                      ret[t] = Err(LastOutcome(t))
            /\ pc[t] = "done" =>
                  (result[t] # ret[t] => (ret[t] = Unavailable /\ FellBack(t)))

\* C14 (threads share only the flag): INVALID never goes from set to unset;
\* a thread that has read it as set, or has set it, reads it as set in all
\* its later loads; every thread whose openat2 failed with ENOSYS leaves it
\* set, however many of them stored; and what a call returns is a function of
\* the value it loaded and of its own openat2 outcomes.
C14_SharedFlagOnly ==
    /\ []C14_OwnOutcome
    /\ [](\A t \in Threads : (Returned(t) /\ LastOutcome(t) = "ENOSYS") => INVALID)
    /\ [](\A t \in Threads : view[t] => INVALID)
    /\ [][INVALID => INVALID']_vars
    /\ [][\A t \in Threads :
            /\ view[t] => view'[t]
            /\ (view[t] /\ pc[t] = "load" /\ pc'[t] # "load") => seen'[t]]_vars

\* Two threads loaded the flag unset, both got ENOSYS and both stored.
C14_Witness ==
    \E t, u \in Threads :
        /\ t # u
        /\ ~seen[t] /\ ~seen[u]
        /\ Returned(t) /\ Returned(u)
        /\ LastOutcome(t) = "ENOSYS" /\ LastOutcome(u) = "ENOSYS"
        /\ INVALID

\* C16 as stated: a call with openat2 calls loaded INVALID before any store
\* of true to it and began before it, and makes at most 4 of them; a call
\* that began with INVALID already true makes none.
C16_NoOpenat2AfterSet ==
    \A t \in Threads :
        /\ Len(calls[t]) <= 4
        /\ calls[t] # << >> => ~stale[t]
        /\ began[t] => calls[t] = << >>

\* C16 (amended): a call makes openat2 calls only if its own load of INVALID
\* returned false, which a relaxed load on another thread may still do after
\* the store; such a call makes at most 4 of them; a call whose load
\* returned true makes none, and neither does any later call of a thread
\* that has loaded true or has stored true itself.
C16_Openat2OnlyAfterUnsetLoad ==
    \A t \in Threads :
        /\ Len(calls[t]) <= 4
        /\ calls[t] # << >> => ~seen[t]
        /\ pc[t] = "loop" => (~seen[t] /\ ~view[t])
        /\ (stale[t] \/ (began[t] /\ pc[t] # "load" /\ ~seen[t])) =>
              \E u \in Threads \ {t} : view[u]

\* A call that began after another thread had set the flag loaded it as
\* unset and made an openat2 call.
C16_Witness ==
    \E t \in Threads :
        /\ INVALID
        /\ began[t]
        /\ stale[t]
        /\ ~seen[t]
        /\ calls[t] # << >>

====
